---- MODULE Spec2Model ----
(***************************************************************************)
(* State-machine model of grim: the scenario ledger (GameStateManager and  *)
(* the immutable Game class), the chat front-end that owns the session,    *)
(* and the action resolution pipeline (ChatService.processActions).        *)
(*                                                                         *)
(* Texts are modelled structurally: a text is a sequence of lines and a    *)
(* line is a tuple of tokens, so that join("\n") and template strings are  *)
(* sequence and tuple constructions.                                       *)
(***************************************************************************)
EXTENDS Integers, Sequences, FiniteSets, TLC

\* ------------------------------------------------------------------ bounds
MaxQueue == 2
MaxBatch == 3
MaxCommits == 1
MaxGameCommits == 2
MaxPlayers == 1
HashSpace == 8

\* ------------------------------------------------------------ small domains
None == "none"
Throw == "throw"

Types == {"INFO", "FEED", "ACTION"}
Messages == {"c1"}
Narratives == {"n1"}
Briefings == {"b1"}
PrivInfos == {"p1"}
Variants == {"aiclient", "telegram", "grim"}

Ann == [id |-> 1, name |-> "Ann", role |-> "r1"]
Bob == [id |-> 2, name |-> "Bob", role |-> "r2"]

\* the interactions the pipeline-only and Game specifications draw from
SampleInteractions ==
  { [type |-> "FEED",   player |-> Ann, content |-> "c1"],
    [type |-> "ACTION", player |-> Ann, content |-> "c1"],
    [type |-> "INFO",   player |-> Bob, content |-> "c2"] }

OutcomeLists ==
  { <<[outcome |-> "o1", weight |-> 7], [outcome |-> "o2", weight |-> 3]>>,
    <<[outcome |-> "o2", weight |-> 1]>>,
    <<>> }

\* a draw of Math.random() as an exact fraction <<numerator, denominator>>
Draws == { <<0, 1>>, <<1, 2>>, <<19, 20>> }

VARIABLES
  svc,          \* which ChatService source variant serves the oracle calls
  run,          \* the ChatService.processActions run in flight
  players,      \* ctx.session.grimState.players
  playing,      \* ctx.session.grimState.playing
  pending,      \* grimState.pendingUserInteractions
  heap,         \* every ScenarioStateNode object created, by identity
  rootState,    \* grimState.rootState (index into heap, 0 when inactive)
  currentState, \* grimState.currentState (index into heap, 0 when inactive)
  cmd,          \* position of the bot command handler being run
  game,         \* the Game instance the caller holds
  hist          \* history: hashes and nodes that were current, the last calls

vars == <<svc, run, players, playing, pending, heap, rootState, currentState,
          cmd, game, hist>>

botVars == <<players, playing, pending, heap, rootState, currentState, cmd>>
gameVars == <<game, hist>>

\* ------------------------------------------------------------------ helpers
RECURSIVE SumWeights(_)
SumWeights(outcomes) ==
  IF outcomes = <<>> THEN 0
  ELSE Head(outcomes).weight + SumWeights(Tail(outcomes))

\* (mutation) INFO interactions get no forecast request
partitionActionsOnly(array, predicate) ==
  LET pass(a) == a \in predicate
      fail(a) == a \notin predicate /\ a.type = "ACTION"
  IN  <<SelectSeq(array, pass), SelectSeq(array, fail)>>

\* partition(array, predicate): [matching, non-matching], each in original
\* order; the predicate is given as the set of elements it holds for
partition(array, predicate) ==
  LET pass(a) == a \in predicate
      fail(a) == a \notin predicate
  IN  <<SelectSeq(array, pass), SelectSeq(array, fail)>>

\* action => action.type === UserInteractionType.FEED
IsFeed(actions) == { actions[i] : i \in { j \in 1..Len(actions) : actions[j].type = "FEED" } }

Feeds(actions) == partition(actions, IsFeed(actions))[1]
NonFeeds(actions) == partition(actions, IsFeed(actions))[2]

\* (mutation) an empty list yields a default value
sampleWithDefault(outcomes, rand) ==
  LET totalWeight == SumWeights(outcomes)
      cumSum(i) == SumWeights(SubSeq(outcomes, 1, i))
      hits == IF totalWeight = 0 THEN {}
              ELSE { i \in 1..Len(outcomes) :
                       rand[1] * totalWeight <= cumSum(i) * rand[2] }
  IN  IF hits # {}
        THEN outcomes[CHOOSE i \in hits : \A j \in hits : i <= j].outcome
      ELSE IF outcomes = <<>> THEN None
      ELSE outcomes[Len(outcomes)].outcome

\* (mutation) no fallback after the loop
sampleWithoutFallback(outcomes, rand) ==
  LET totalWeight == SumWeights(outcomes)
      cumSum(i) == SumWeights(SubSeq(outcomes, 1, i))
      hits == IF totalWeight = 0 THEN {}
              ELSE { i \in 1..Len(outcomes) :
                       rand[1] * totalWeight <= cumSum(i) * rand[2] }
  IN  IF hits # {}
        THEN outcomes[CHOOSE i \in hits : \A j \in hits : i <= j].outcome
      ELSE Throw

\* (mutation) the draw is compared with the weights as given, not normalized
sampleUnnormalized(outcomes, rand) ==
  LET cumSum(i) == SumWeights(SubSeq(outcomes, 1, i))
      hits == { i \in 1..Len(outcomes) : rand[1] <= cumSum(i) * rand[2] }
  IN  IF hits # {}
        THEN outcomes[CHOOSE i \in hits : \A j \in hits : i <= j].outcome
      ELSE IF outcomes = <<>> THEN Throw
      ELSE outcomes[Len(outcomes)].outcome

\* sampleFromWeightedOutcomes with the draw made explicit. The comparison
\* rand <= cumSum, cumSum a sum of weight / totalWeight, is done exactly on
\* fractions. Weights are naturals: a total of 0 makes every normalized
\* weight NaN (0 / 0), and rand <= NaN is false for every outcome.
sampleFromWeightedOutcomes(outcomes, rand) ==
  LET totalWeight == SumWeights(outcomes)
      cumSum(i) == SumWeights(SubSeq(outcomes, 1, i))
      hits == IF totalWeight = 0 THEN {}
              ELSE { i \in 1..Len(outcomes) :
                       rand[1] * totalWeight <= cumSum(i) * rand[2] }
  IN  IF hits # {}
        THEN outcomes[CHOOSE i \in hits : \A j \in hits : i <= j].outcome
      ELSE IF outcomes = <<>>
        THEN Throw      \* outcomes[-1].outcome: TypeError
      ELSE outcomes[Len(outcomes)].outcome

\* ------------------------------------------------- the resolution pipeline
ForecastResponses ==
  { [kind |-> "transport"], [kind |-> "notool"], [kind |-> "badjson"] }
  \cup { [kind |-> "tool", outcomes |-> ol] : ol \in OutcomeLists }

ResolutionLine(action, outcome) ==
  <<action.type, action.player.name, action.content, "Outcome", outcome>>

\* (mutation) a response without tool call throws instead of returning null
ForecastResultNoToolThrows(variant, action, resp, rand) ==
  CASE resp.kind \in {"transport", "notool", "badjson"} ->
         [st |-> "threw", kind |-> resp.kind]
    [] resp.kind = "tool" ->
         LET outcome == sampleFromWeightedOutcomes(resp.outcomes, rand)
         IN  IF outcome = Throw THEN [st |-> "threw", kind |-> resp.kind]
             ELSE [st |-> "line", kind |-> resp.kind,
                   line |-> ResolutionLine(action, outcome)]

\* the body of one actionPromises callback after its oracle call returned;
\* kind keeps what the oracle answered
ForecastResult(variant, action, resp, rand) ==
  CASE resp.kind = "transport" -> [st |-> "threw", kind |-> resp.kind]
    [] resp.kind = "notool"    -> [st |-> "null", kind |-> resp.kind]
    [] resp.kind = "badjson"   ->
         IF variant = "telegram" THEN [st |-> "null", kind |-> resp.kind]
         ELSE [st |-> "threw", kind |-> resp.kind]
    [] resp.kind = "tool"      ->
         LET outcome == sampleFromWeightedOutcomes(resp.outcomes, rand)
         IN  IF outcome = Throw THEN [st |-> "threw", kind |-> resp.kind]
             ELSE [st |-> "line", kind |-> resp.kind,
                   line |-> ResolutionLine(action, outcome)]

\* the messages of one forecast request: the canon, all interactions of the
\* batch as context, and the interaction to forecast
ForecastRequest(canon, actions, action) ==
  [ canon      |-> canon,
    concurrent |-> [k \in 1..Len(actions) |->
                      <<actions[k].type, actions[k].player.name, actions[k].content>>],
    target     |-> <<action.type, action.player.name, action.content>> ]

IdleRun == [phase |-> "idle"]

\* ChatService.processActions up to its first suspension: the batch is
\* partitioned and one forecast request per non-FEED interaction is issued.
StartRun(canon, actions) ==
  [ phase      |-> "forecasting",
    canon      |-> canon,
    actions    |-> actions,
    fc         |-> [i \in 1..Len(NonFeeds(actions)) |-> [st |-> "out"]],
    arrived    |-> <<>>,
    merged     |-> FALSE,
    mergeInput |-> <<>>,
    response   |-> None,
    privateInfo |-> None,
    requests   |-> [i \in 1..Len(NonFeeds(actions)) |->
                      ForecastRequest(canon, actions, NonFeeds(actions)[i])],
    forecasts  |-> Len(NonFeeds(actions)),   \* forecast requests issued
    merges     |-> 0 ]                       \* narrator requests issued

Outstanding(r) == { i \in 1..Len(r.fc) : r.fc[i].st = "out" }

\* await Promise.all(actionPromises): fulfilled values in input order
PromiseAllByArrival(r) == [k \in 1..Len(r.arrived) |-> r.fc[r.arrived[k]]]
PromiseAll(r) == r.fc

IsLine(x) == x.st = "line"

RECURSIVE Lines(_)
Lines(results) ==
  IF results = <<>> THEN <<>>
  ELSE IF IsLine(Head(results)) THEN <<Head(results).line>> \o Lines(Tail(results))
  ELSE Lines(Tail(results))

FeedMessages(actions) ==
  LET feeds == Feeds(actions)
  IN  [i \in 1..Len(feeds) |-> <<feeds[i].type, feeds[i].content>>]

AllOutcomesStr(r) == FeedMessages(r.actions) \o Lines(PromiseAll(r))

\* One forecast oracle call returns (or throws) and its callback runs to its
\* end. A rejection settles Promise.all at once, so the run fails while other
\* requests may still be out; what those return later is discarded (the
\* callbacks touch no state), so the model stops following them.
FailedRun(r, i, res) == [r EXCEPT !.phase = "failed", !.fc[i] = res]

\* (mutation) a forecast that completes after another one takes over the
\* line of the one that completed last
ForecastCallbackChained(i, resp, rand) ==
  /\ run.phase = "forecasting"
  /\ i \in Outstanding(run)
  /\ LET own == ForecastResult(svc, NonFeeds(run.actions)[i], resp, rand)
         res == IF own.st = "line" /\ run.arrived # <<>>
                     /\ run.fc[run.arrived[Len(run.arrived)]].st = "line"
                  THEN run.fc[run.arrived[Len(run.arrived)]]
                  ELSE own
     IN  run' = IF res.st = "threw" THEN FailedRun(run, i, res)
                ELSE [run EXCEPT !.fc[i] = res, !.arrived = Append(@, i)]

\* the i-th actionPromises callback resumes with its oracle response
ForecastCallback(i, resp, rand) ==
  /\ run.phase = "forecasting"
  /\ i \in Outstanding(run)
  /\ LET res == ForecastResult(svc, NonFeeds(run.actions)[i], resp, rand)
     IN  run' = IF res.st = "threw" THEN FailedRun(run, i, res)
                ELSE [run EXCEPT !.fc[i] = res, !.arrived = Append(@, i)]

ForecastReturn(i, resp, rand) ==
  /\ ForecastCallback(i, resp, rand)
  /\ UNCHANGED <<svc, botVars, gameVars>>

\* the same step with the response and the draw kept in the history
ForecastReturnLogged(i, resp, rand) ==
  /\ ForecastCallback(i, resp, rand)
  /\ hist' = [hist EXCEPT !.inputs = Append(@, [i |-> i, resp |-> resp, rand |-> rand])]
  /\ UNCHANGED <<svc, botVars, game>>

\* (mutation) the merge starts when the first forecast has settled
MergeReadyOnFirst(r) ==
  r.phase = "forecasting" /\ (r.arrived # <<>> \/ Len(r.fc) = 0)

\* await Promise.all(...) resumes once every promise is fulfilled
\* (mutation) the barrier opens only when every forecast produced a line
MergeReadyAllLines(r) ==
  r.phase = "forecasting" /\ \A i \in 1..Len(r.fc) : r.fc[i].st = "line"

MergeReady(r) == r.phase = "forecasting" /\ Outstanding(r) = {}

\* Promise.all has resolved: the merge text is built and the narrator called
MergeIssue ==
  /\ MergeReady(run)
  /\ run' = [run EXCEPT !.phase = "merging", !.merged = TRUE,
                         !.mergeInput = AllOutcomesStr(run),
                         !.merges = @ + 1]
  /\ UNCHANGED <<svc, botVars, gameVars>>

MergeResponses == {"transport", "empty"} \cup Narratives

NarratorOutcome(variant, resp) ==
  CASE resp = "transport" -> Throw
    [] resp = "empty" ->
         IF variant = "grim" THEN Throw ELSE "Failed to generate narrative"
    [] OTHER -> resp

\* the private ledger that comes with the narrator's answer: the parsed
\* ScenarioUpdate of the openai.ts service carries one, the other two services
\* return the narrative text alone
NarratorPrivateInfo(variant, resp) ==
  IF variant = "grim" THEN "p2" ELSE None

MergeReturn(resp) ==
  /\ run.phase = "merging"
  /\ LET n == NarratorOutcome(svc, resp)
     IN  run' = IF n = Throw THEN [run EXCEPT !.phase = "failed"]
                ELSE [run EXCEPT !.phase = "done", !.response = n,
                                 !.privateInfo = NarratorPrivateInfo(svc, resp)]
  /\ UNCHANGED <<svc, botVars, gameVars>>

PipelineStep ==
  \/ \E i \in 1..MaxBatch, resp \in ForecastResponses, rand \in Draws :
       ForecastReturn(i, resp, rand)
  \/ MergeIssue
  \/ \E resp \in MergeResponses : MergeReturn(resp)

\* ------------------------------------------------------------ the hasher
TokList ==
  << "INFO", "FEED", "ACTION", "Ann", "Bob", "c1", "c2", "n1", "b1",
     "p1", "user", "assistant", "Failed to generate narrative",
     "Failed to generate scenario", "p2" >>

TokCode(t) == CHOOSE i \in 1..Len(TokList) : TokList[i] = t

\* an order-sensitive digest of a sequence of numbers
RECURSIVE Absorb(_, _)
Absorb(codes, acc) ==
  IF codes = <<>> THEN acc
  ELSE Absorb(Tail(codes), (acc * 31 + Head(codes) + 1) % 65521)

LineCode(line) == Absorb([i \in 1..Len(line) |-> TokCode(line[i])], 3)
TextCode(text) == Absorb([i \in 1..Len(text) |-> LineCode(text[i])], 5)
MessageCode(m) == Absorb(<<TokCode(m.role), TextCode(m.content)>>, 7)
CanonCode(canon) == Absorb([i \in 1..Len(canon) |-> MessageCode(canon[i])], 11)

\* crypto.createHash('sha256').update(s).digest('hex').slice(0, 8): the digest
\* is cut to a fixed number of characters, here to HashSpace values
Sha256Hex8(code) == code % HashSpace

\* GameStateManager.generateStateHash: JSON.stringify of {canon, privateInfo}
generateStateHash(state) ==
  Sha256Hex8(Absorb(<<CanonCode(state.canon), TokCode(state.privateInfo)>>, 13))

\* ------------------------------------------------ GameStateManager (ledger)
createScenarioStateRoot(state) ==
  [state |-> state, stateHash |-> generateStateHash(state),
   children |-> <<>>, parent |-> 0]

createScenarioStateChildNode(state, parent) ==
  [createScenarioStateRoot(state) EXCEPT !.parent = parent]

\* depth-first search over the children arrays, starting at node
RECURSIVE findNodeByHash(_, _, _)
RECURSIVE FindAmong(_, _, _)
findNodeByHash(h, node, hash) ==
  IF h[node].stateHash = hash THEN node
  ELSE FindAmong(h, h[node].children, hash)
FindAmong(h, kids, hash) ==
  IF kids = <<>> THEN 0
  ELSE LET found == findNodeByHash(h, Head(kids), hash)
       IN  IF found # 0 THEN found ELSE FindAmong(h, Tail(kids), hash)

\* formatUserInteractions: one line per interaction, joined by newlines
FormatInteraction(a) ==
  IF a.type = "ACTION" THEN <<"ACTION", a.player.name, a.content>>
  ELSE <<a.type, a.content>>

formatUserInteractions(interactions) ==
  [i \in 1..Len(interactions) |-> FormatInteraction(interactions[i])]

AssistantMessage(text) == [role |-> "assistant", content |-> <<<<text>>>>]
UserMessage(text) == [role |-> "user", content |-> text]

\* the canon of the node GameStateManager.processActions builds
ChildCanon(canon, interactions, narrative) ==
  canon \o << UserMessage(formatUserInteractions(interactions)),
              AssistantMessage(narrative) >>

\* GameStateManager.processActions after the pipeline returned
ManagerNewState(h, current, r) ==
  createScenarioStateChildNode(
    [canon |-> ChildCanon(h[current].state.canon, r.actions, r.response),
     privateInfo |-> h[current].state.privateInfo],
    current)

\* --------------------------------------------------- the bot front-end
Users == {1, 2}
RoleInputs == { [name |-> "Ann", role |-> "r1"], [name |-> "Bob", role |-> "r2"] }

\* players.find(p => p.id === userId): the first match, 0 if none
FindPlayer(ps, userId) ==
  LET hits == { i \in 1..Len(ps) : ps[i].id = userId }
  IN  IF hits = {} THEN 0 ELSE CHOOSE i \in hits : \A j \in hits : i <= j

\* (mutation) the scenario command is not filtered by requireNoScenario
requireNoScenarioAlways == TRUE

requireRole(userId) == FindPlayer(players, userId) # 0
requireScenario == playing
requireNoScenario == ~playing

\* (mutation) updates are handled as they arrive, also while a handler awaits
DispatchConcurrent(userId) == cmd.pc \in {"idle", "scenario", "process", "replying"}

\* bot.start(): updates are handled one at a time, so a command starts only
\* when no handler is suspended
Dispatch(userId) == cmd.pc = "idle"

Finished(last) == [pc |-> "idle", last |-> last, cur0 |-> 0, queue0 |-> <<>>]

\* role command; max caps the number of role commands of a session
RoleCmdUpTo(userId, input, max) ==
  /\ Dispatch(userId)
  /\ Len(players) < max
  /\ players' = Append(players, [id |-> userId, name |-> input.name, role |-> input.role])
  /\ cmd' = Finished("role")
  /\ UNCHANGED <<svc, run, playing, pending, heap, rootState, currentState, gameVars>>

RoleCmd(userId, input) == RoleCmdUpTo(userId, input, MaxPlayers)

\* scenario command up to the initialize call; the first reply may throw
ScenarioCmd(userId, replyOk) ==
  /\ Dispatch(userId)
  /\ requireRole(userId)
  /\ requireNoScenario
  /\ cmd' = IF replyOk THEN [Finished(None) EXCEPT !.pc = "scenario"]
            ELSE Finished("scenario_failed")
  /\ UNCHANGED <<svc, run, players, playing, pending, heap, rootState, currentState, gameVars>>

InitResponses == {<<"transport">>, <<"empty">>} \cup (Briefings \X PrivInfos)

\* ChatService.initializeScenario: what the caller gets for a response
InitOutcome(variant, resp) ==
  CASE resp = <<"transport">> -> [threw |-> TRUE]
    [] resp = <<"empty">> ->
         IF variant = "grim" THEN [threw |-> TRUE]
         ELSE [threw |-> FALSE, playerBriefing |-> "Failed to generate scenario",
               privateInfo |-> "p1"]
    [] OTHER -> [threw |-> FALSE, playerBriefing |-> resp[1], privateInfo |-> resp[2]]

\* GameStateManager.initializeScenario returns; the session becomes active and
\* the replies that follow may throw into the catch branch
ScenarioReturn(resp, replyOk) ==
  /\ cmd.pc = "scenario"
  /\ LET update == InitOutcome(svc, resp)
     IN  IF update.threw
           THEN /\ cmd' = Finished("scenario_failed")
                /\ UNCHANGED <<playing, pending, heap, rootState, currentState>>
           ELSE /\ heap' = Append(heap, createScenarioStateRoot(
                             [canon |-> <<AssistantMessage(update.playerBriefing)>>,
                              privateInfo |-> update.privateInfo]))
                /\ playing' = TRUE
                /\ pending' = <<>>
                /\ rootState' = Len(heap) + 1
                /\ currentState' = Len(heap) + 1
                /\ cmd' = Finished(IF replyOk THEN "scenario_ok" ELSE "scenario_failed")
  /\ UNCHANGED <<svc, run, players, gameVars>>

\* (mutation) the handler runs as soon as its update arrives, also while a
\* process command awaits the pipeline
QueueHandlerInterleaved(userId, type, message) ==
  /\ requireRole(userId)
  /\ requireScenario
  /\ Len(pending) < MaxQueue
  /\ pending' = Append(pending, [type |-> type,
                                 player |-> players[FindPlayer(players, userId)],
                                 content |-> message])
  /\ cmd' = IF cmd.pc = "idle" THEN Finished("queued") ELSE cmd
  /\ UNCHANGED <<svc, run, players, playing, heap, rootState, currentState>>

\* info, feed and action commands: push onto the pending array
QueueHandler(userId, type, message) ==
  /\ Dispatch(userId)
  /\ requireRole(userId)
  /\ requireScenario
  /\ Len(pending) < MaxQueue
  /\ pending' = Append(pending, [type |-> type,
                                 player |-> players[FindPlayer(players, userId)],
                                 content |-> message])
  /\ cmd' = Finished("queued")
  /\ UNCHANGED <<svc, run, players, playing, heap, rootState, currentState>>

QueueCmd(userId, type, message) ==
  /\ QueueHandler(userId, type, message)
  /\ UNCHANGED gameVars

RemoveAt(queue, k) == [i \in 1..(Len(queue) - 1) |-> IF i < k THEN queue[i] ELSE queue[i + 1]]

\* the texts a user may give to the remove command (ctx.match), character by
\* character
DigitChars == { ToString(d) : d \in 0..9 }

RemoveParams ==
  { <<>>, <<"a", "b", "c">>, <<"1", "x">>, <<"2", ".", "5">>, <<"-", "1">> }
    \cup { <<ToString(k)>> : k \in 0..(MaxQueue + 1) }

\* parseInt(param, 10): leading white space is skipped, a sign is read, then
\* the longest run of decimal digits; what follows the digits is ignored, and
\* a text without leading digits gives NaN
RECURSIVE SkipWhiteSpace(_)
SkipWhiteSpace(s) ==
  IF s # <<>> /\ Head(s) = " " THEN SkipWhiteSpace(Tail(s)) ELSE s

RECURSIVE ReadDigits(_, _)
ReadDigits(s, acc) ==
  IF s = <<>> \/ Head(s) \notin DigitChars THEN acc
  ELSE ReadDigits(Tail(s),
                  10 * acc + (CHOOSE d \in 0..9 : ToString(d) = Head(s)))

parseInt(param) ==
  LET s      == SkipWhiteSpace(param)
      signed == s # <<>> /\ Head(s) \in {"-", "+"}
      body   == IF signed THEN Tail(s) ELSE s
  IN  IF body = <<>> \/ Head(body) \notin DigitChars
        THEN [isNaN |-> TRUE, n |-> 0]
        ELSE [isNaN |-> FALSE,
              n |-> IF signed /\ Head(s) = "-" THEN 0 - ReadDigits(body, 0)
                    ELSE ReadDigits(body, 0)]

\* remove command
RemoveHandler(userId, param) ==
  /\ Dispatch(userId)
  /\ requireRole(userId)
  /\ requireScenario
  /\ IF param = <<>>
       THEN cmd' = Finished("remove_usage") /\ UNCHANGED pending
       ELSE LET index == parseInt(param)
            IN  IF index.isNaN \/ index.n < 1 \/ index.n > Len(pending)
                  THEN /\ cmd' = Finished("remove_invalid")
                       /\ UNCHANGED pending
                  ELSE /\ pending' = RemoveAt(pending, index.n)
                       /\ cmd' = Finished("removed")
  /\ UNCHANGED <<svc, run, players, playing, heap, rootState, currentState>>

RemoveCmd(userId, param) ==
  /\ RemoveHandler(userId, param)
  /\ UNCHANGED gameVars

\* process command up to the suspension inside the pipeline
ProcessCmd(userId, replyOk) ==
  /\ Dispatch(userId)
  /\ requireRole(userId)
  /\ requireScenario
  /\ Len(heap) < 1 + MaxCommits
  /\ IF pending = <<>>
       THEN cmd' = Finished("process_empty") /\ UNCHANGED run
     ELSE IF ~replyOk
       THEN cmd' = Finished("process_threw") /\ UNCHANGED run
     ELSE /\ cmd' = [pc |-> "process", last |-> None,
                     cur0 |-> currentState, queue0 |-> pending]
          /\ run' = StartRun(heap[currentState].state.canon, pending)
  /\ UNCHANGED <<svc, players, playing, pending, heap, rootState, currentState, gameVars>>

\* (mutation) the catch branch drops the pending queue
ProcessCatchClearing ==
  /\ cmd.pc = "process"
  /\ run.phase = "failed"
  /\ cmd' = [cmd EXCEPT !.pc = "idle", !.last = "process_failed"]
  /\ run' = IdleRun
  /\ pending' = <<>>
  /\ UNCHANGED <<svc, players, playing, heap, rootState, currentState, gameVars>>

\* the pipeline threw: the catch branch logs and replies
ProcessCatch ==
  /\ cmd.pc = "process"
  /\ run.phase = "failed"
  /\ cmd' = [cmd EXCEPT !.pc = "idle", !.last = "process_failed"]
  /\ run' = IdleRun
  /\ UNCHANGED <<svc, players, playing, pending, heap, rootState, currentState, gameVars>>

\* the pipeline returned: the child node is built and made current
ProcessCommit ==
  /\ cmd.pc = "process"
  /\ run.phase = "done"
  /\ heap' = Append(heap, ManagerNewState(heap, cmd.cur0, run))
  /\ currentState' = Len(heap) + 1
  /\ cmd' = [cmd EXCEPT !.pc = "replying"]
  /\ run' = IdleRun
  /\ UNCHANGED <<svc, players, playing, pending, rootState, gameVars>>

\* the replies after the commit, then the queue is cleared; a reply that
\* throws lands in the catch branch
ProcessReplies(replyOk) ==
  /\ cmd.pc = "replying"
  /\ IF replyOk
       THEN pending' = <<>> /\ cmd' = [cmd EXCEPT !.pc = "idle", !.last = "process_ok"]
       ELSE UNCHANGED pending /\ cmd' = [cmd EXCEPT !.pc = "idle", !.last = "process_reply_failed"]
  /\ UNCHANGED <<svc, run, players, playing, heap, rootState, currentState, gameVars>>

\* rollback command
RollbackCmd(userId, targetHash) ==
  /\ Dispatch(userId)
  /\ requireRole(userId)
  /\ requireScenario
  /\ LET found == findNodeByHash(heap, rootState, targetHash)
     IN  IF found = 0
           THEN cmd' = Finished("rollback_invalid") /\ UNCHANGED currentState
           ELSE currentState' = found /\ cmd' = Finished("rollback_ok")
  /\ UNCHANGED <<svc, run, players, playing, pending, heap, rootState, gameVars>>

InitCommon ==
  /\ players = <<>>
  /\ playing = FALSE
  /\ pending = <<>>
  /\ heap = <<>>
  /\ rootState = 0
  /\ currentState = 0
  /\ cmd = Finished(None)
  /\ game = [defined |-> FALSE]
  /\ hist = [seen |-> {}, made |-> {}, last |-> None, via |-> None,
             pc |-> "idle", commits |-> 0, inputs |-> <<>>,
            kept |-> [defined |-> FALSE], clocks |-> <<>>, inbox |-> <<>>,
            param |-> <<>>, removes |-> 0]

InitBot ==
  /\ svc \in Variants
  /\ run = IdleRun
  /\ InitCommon

NextBot ==
  \/ \E u \in Users, input \in RoleInputs : RoleCmd(u, input)
  \/ \E u \in Users, ok \in BOOLEAN : ScenarioCmd(u, ok)
  \/ \E resp \in InitResponses, ok \in BOOLEAN : ScenarioReturn(resp, ok)
  \/ \E u \in Users, t \in Types, m \in Messages : QueueCmd(u, t, m)
  \/ \E u \in Users, param \in RemoveParams : RemoveCmd(u, param)
  \/ \E u \in Users, ok \in BOOLEAN : ProcessCmd(u, ok)
  \/ PipelineStep
  \/ ProcessCatch
  \/ ProcessCommit
  \/ \E ok \in BOOLEAN : ProcessReplies(ok)
  \/ \E u \in Users, h \in 0..(HashSpace - 1) : RollbackCmd(u, h)

Spec == InitBot /\ [][NextBot]_vars

\* the role, scenario and queueing commands, with repeated role commands
MaxRoleCmds == 3

NextRoles ==
  \/ \E u \in Users, input \in RoleInputs : RoleCmdUpTo(u, input, MaxRoleCmds)
  \/ \E u \in Users, ok \in BOOLEAN : ScenarioCmd(u, ok)
  \/ \E resp \in InitResponses, ok \in BOOLEAN : ScenarioReturn(resp, ok)
  \/ \E u \in Users, t \in Types, m \in Messages : QueueCmd(u, t, m)

SpecRoles == InitBot /\ [][NextRoles]_vars

\* the bot with updates that arrive while a handler awaits: bot.start() keeps
\* them (hist.inbox, in order of arrival) until the handler has finished
MaxInbox == 1

\* a user sends an info, feed or action command while the process command
\* awaits the pipeline or its replies
SendWhileAwaiting(userId, type, message) ==
  /\ cmd.pc \in {"process", "replying"}
  /\ Len(hist.inbox) < MaxInbox
  /\ hist' = [hist EXCEPT !.inbox = Append(@, [user |-> userId, type |-> type,
                                               message |-> message]),
                          !.last = "sent"]
  /\ UNCHANGED <<svc, run, botVars, game>>

\* the update loop hands the oldest waiting update to its handler
DeliverQueued ==
  /\ hist.inbox # <<>>
  /\ LET u == Head(hist.inbox)
     IN  QueueHandler(u.user, u.type, u.message)
  /\ hist' = [hist EXCEPT !.inbox = Tail(@), !.last = "delivered"]
  /\ UNCHANGED game

NextInbox ==
  \/ \E u \in Users, input \in RoleInputs : RoleCmd(u, input)
  \/ \E u \in Users, ok \in BOOLEAN : ScenarioCmd(u, ok)
  \/ \E resp \in InitResponses, ok \in BOOLEAN : ScenarioReturn(resp, ok)
  \/ \E u \in Users, t \in Types, m \in Messages : QueueCmd(u, t, m)
  \/ \E u \in Users, ok \in BOOLEAN : ProcessCmd(u, ok)
  \/ PipelineStep
  \/ ProcessCatch
  \/ ProcessCommit
  \/ \E ok \in BOOLEAN : ProcessReplies(ok)
  \/ \E u \in Users, t \in Types, m \in Messages : SendWhileAwaiting(u, t, m)
  \/ DeliverQueued

SpecInbox == InitBot /\ [][NextInbox]_vars

\* the queueing commands, with the text of each remove command kept on record
MaxRemoves == 2

RemoveLogged(userId, param) ==
  /\ hist.removes < MaxRemoves
  /\ RemoveHandler(userId, param)
  /\ hist' = [hist EXCEPT !.param = param, !.removes = @ + 1]
  /\ UNCHANGED game

NextQueue ==
  \/ \E u \in Users, input \in RoleInputs : RoleCmd(u, input)
  \/ \E u \in Users, ok \in BOOLEAN : ScenarioCmd(u, ok)
  \/ \E resp \in InitResponses, ok \in BOOLEAN : ScenarioReturn(resp, ok)
  \/ \E u \in Users, t \in Types, m \in Messages : QueueCmd(u, t, m)
  \/ \E u \in Users, param \in RemoveParams : RemoveLogged(u, param)

SpecQueue == InitBot /\ [][NextQueue]_vars

\* ------------------------------------------------ ScenarioState and Game
NoHash == 0 - 1     \* undefined, where a hash is expected

\* (mutation) the hash also covers a counter that grows with every commit
ScenarioStateWithNonce(canon, privateInfo, parentHash) ==
  [ canon       |-> canon,
    privateInfo |-> privateInfo,
    parentHash  |-> parentHash,
    hash        |-> Sha256Hex8(Absorb(<<CanonCode(canon), TokCode(privateInfo),
                                        parentHash + 1, hist.commits>>, 17)) ]

\* ScenarioState constructor: the hash covers canon, privateInfo and parentHash
\* (JSON.stringify leaves out a parentHash that is undefined)
ScenarioState(canon, privateInfo, parentHash) ==
  [ canon       |-> canon,
    privateInfo |-> privateInfo,
    parentHash  |-> parentHash,
    hash        |-> Sha256Hex8(Absorb(<<CanonCode(canon), TokCode(privateInfo),
                                        parentHash + 1>>, 17)) ]

ScenarioStateRoot(initialMessages, privateInfo) ==
  ScenarioState(initialMessages, privateInfo, NoHash)

\* (mutation) the child takes over the hash of the node it is built from
ScenarioStateChildKeepingHash(self, newMessages, privateInfo) ==
  [ScenarioState(self.canon \o newMessages, privateInfo, self.hash)
     EXCEPT !.hash = self.hash]

ScenarioStateChild(self, newMessages, privateInfo) ==
  ScenarioState(self.canon \o newMessages, privateInfo, self.hash)

\* Map.set of immutable.js: a new map, the entry at key replaced or added
MapSet(m, key, value) ==
  [k \in DOMAIN m \cup {key} |-> IF k = key THEN value ELSE m[k]]

EmptyMap == [k \in {} |-> 0]

Undefined == [defined |-> FALSE]

\* (mutation) the constructor does not store the current state
GameWithoutSet(scenarioStates, state, userInteractions) ==
  [ defined          |-> TRUE,
    scenarioStates   |-> scenarioStates,
    currentState     |-> state,
    userInteractions |-> userInteractions ]

\* Game constructor
Game(scenarioStates, state, userInteractions) ==
  [ defined          |-> TRUE,
    scenarioStates   |-> MapSet(scenarioStates, state.hash, state),
    currentState     |-> state,
    userInteractions |-> userInteractions ]

\* (mutation) moving the current state drops the queue
UpdateCurrentStateClearing(g, state) == Game(g.scenarioStates, state, <<>>)

\* Game.update with only currentState, or only userInteractions, or both given
UpdateCurrentState(g, state) == Game(g.scenarioStates, state, g.userInteractions)
UpdateUserInteractions(g, queue) == Game(g.scenarioStates, g.currentState, queue)
UpdateBoth(g, state, queue) == Game(g.scenarioStates, state, queue)

queueUserInteraction(g, interaction) ==
  UpdateUserInteractions(g, Append(g.userInteractions, interaction))

\* List.delete(index) of immutable.js: a negative index counts from the end,
\* an index outside the list leaves it as it is (index is 0-based)
ListDelete(list, index) ==
  LET at == IF index < 0 THEN Len(list) + index ELSE index
  IN  IF at < 0 \/ at >= Len(list) THEN list ELSE RemoveAt(list, at + 1)

removeUserInteraction(g, index) ==
  UpdateUserInteractions(g, ListDelete(g.userInteractions, index))

\* (mutation) an unknown hash falls back to the current state with an
\* emptied queue
rollbackOrReset(g, hash) ==
  LET target == IF hash = NoHash THEN g.currentState.parentHash ELSE hash
  IN  IF target = NoHash THEN Undefined
      ELSE IF target \notin DOMAIN g.scenarioStates
        THEN UpdateUserInteractions(g, <<>>)
      ELSE UpdateCurrentState(g, g.scenarioStates[target])

\* Game.rollback; hash = NoHash stands for a call without argument
rollback(g, hash) ==
  LET target == IF hash = NoHash THEN g.currentState.parentHash ELSE hash
  IN  IF target = NoHash THEN Undefined
      ELSE IF target \notin DOMAIN g.scenarioStates THEN Undefined
      ELSE UpdateCurrentState(g, g.scenarioStates[target])

\* Game.processActions after the pipeline returned
UpdatedGame(g, r) ==
  UpdateBoth(g,
    ScenarioStateChild(g.currentState,
      << UserMessage(formatUserInteractions(g.userInteractions)),
         AssistantMessage(r.response) >>,
      g.currentState.privateInfo),
    <<>>)

\* ------------------------------------------- a caller of the Game class
GameInteractions ==
  { [type |-> "FEED",   player |-> Ann, content |-> "c1"],
    [type |-> "ACTION", player |-> Ann, content |-> "c1"] }

Seen(h, g) == [h EXCEPT !.seen = @ \cup {g.currentState.hash},
                        !.made = @ \cup {g.currentState}]
Did(h, op) == [h EXCEPT !.last = op]

\* (mutation) the method writes its update into the receiver, as a push on a
\* native array or an assignment to this.currentState would
ReceiverAfterInPlace(g, result) == IF result.defined THEN result ELSE g

\* the receiver of a Game method after the call returned result: the fields
\* are readonly, update builds the result with new Game, and List.push,
\* List.delete and Map.set of immutable.js return new collections
ReceiverAfter(g, result) ==
  [ defined          |-> g.defined,
    scenarioStates   |-> g.scenarioStates,
    currentState     |-> g.currentState,
    userInteractions |-> g.userInteractions ]

\* the caller's reference to the Game it made the last call on
Kept(h, g, result) == [h EXCEPT !.kept = ReceiverAfter(g, result)]

\* Game.startGame
GameStart(resp) ==
  /\ ~game.defined
  /\ hist.pc = "idle"
  /\ LET update == InitOutcome(svc, resp)
     IN  IF update.threw THEN UNCHANGED <<game, hist>>
         ELSE /\ game' = Game(EmptyMap,
                              ScenarioStateRoot(<<AssistantMessage(update.playerBriefing)>>,
                                                update.privateInfo),
                              <<>>)
              /\ hist' = Did(Seen(hist, game'), "start")
  /\ UNCHANGED <<svc, run, botVars>>

GameQueue(interaction) ==
  /\ game.defined
  /\ hist.pc = "idle"
  /\ Len(game.userInteractions) < MaxQueue
  /\ game' = queueUserInteraction(game, interaction)
  /\ hist' = Kept(Did(hist, "queue"), game, game')
  /\ UNCHANGED <<svc, run, botVars>>

GameRemove(index) ==
  /\ game.defined
  /\ hist.pc = "idle"
  /\ game' = removeUserInteraction(game, index)
  /\ hist' = Kept(Did(hist, "remove"), game, game')
  /\ UNCHANGED <<svc, run, botVars>>

\* the caller keeps the Game that rollback returns, if it returns one
GameRollback(hash) ==
  /\ game.defined
  /\ hist.pc = "idle"
  /\ LET result == rollback(game, hash)
     IN  IF result.defined
           THEN /\ game' = result
                /\ hist' = Kept(Did(Seen(hist, result), "rollback"), game, result)
           ELSE /\ UNCHANGED game
                /\ hist' = Kept(Did(hist, "rollback_undefined"), game, result)
  /\ UNCHANGED <<svc, run, botVars>>

\* Game.processActions up to the suspension inside the pipeline
GameProcess ==
  /\ game.defined
  /\ hist.pc = "idle"
  /\ hist.commits < MaxGameCommits
  /\ run' = StartRun(game.currentState.canon, game.userInteractions)
  /\ hist' = [hist EXCEPT !.pc = "process", !.via = hist.last]
  /\ UNCHANGED <<svc, game, botVars>>

\* the pipeline returned or threw; the caller keeps the updated Game
GameProcessReturn ==
  /\ hist.pc = "process"
  /\ run.phase \in {"done", "failed"}
  /\ IF run.phase = "done"
       THEN /\ game' = UpdatedGame(game, run)
            /\ hist' = [Kept(Did(Seen(hist, game'), "process"), game, game') EXCEPT
                           !.pc = "idle", !.commits = @ + 1]
       ELSE /\ UNCHANGED game
            /\ hist' = [Kept(Did(hist, "process_threw"), game, Undefined) EXCEPT
                           !.pc = "idle"]
  /\ run' = IdleRun
  /\ UNCHANGED <<svc, botVars>>

\* Game.processActions reads the pipeline's result as an array of messages,
\* which is what the ChatService of ai-client.ts returns
InitGame ==
  /\ svc = "aiclient"
  /\ run = IdleRun
  /\ InitCommon

NextGame ==
  \/ \E resp \in InitResponses : GameStart(resp)
  \/ \E i \in GameInteractions : GameQueue(i)
  \/ \E index \in (0 - 1)..MaxQueue : GameRemove(index)
  \/ \E hash \in NoHash..(HashSpace - 1) : GameRollback(hash)
  \/ GameProcess
  \/ PipelineStep
  \/ GameProcessReturn

SpecGame == InitGame /\ [][NextGame]_vars

\* ---------------------------------------------- pipeline-only specification
RECURSIVE SeqsUpTo(_, _)
SeqsUpTo(S, n) ==
  IF n = 0 THEN {<<>>}
  ELSE LET shorter == SeqsUpTo(S, n - 1)
       IN  shorter \cup { Append(s, x) : s \in shorter, x \in S }

RootCanon(b) == <<[role |-> "assistant", content |-> <<<<b>>>>]>>

InitPipe ==
  /\ svc \in Variants
  /\ \E actions \in SeqsUpTo(SampleInteractions, MaxBatch) :
       run = StartRun(RootCanon("b1"), actions)
  /\ InitCommon

NextPipe == PipelineStep

SpecPipe == InitPipe /\ [][NextPipe]_vars

\* the pipeline with each forecast's own response and draw kept on record
NextLogged ==
  \/ \E i \in 1..MaxBatch, resp \in ForecastResponses, rand \in Draws :
       ForecastReturnLogged(i, resp, rand)
  \/ MergeIssue
  \/ \E resp \in MergeResponses : MergeReturn(resp)

SpecLogged == InitPipe /\ [][NextLogged]_vars

\* the process command alone, on an active session of one player with a
\* queue of up to MaxQueue interactions
InitProcess ==
  /\ svc \in Variants
  /\ run = IdleRun
  /\ players = <<Ann>>
  /\ playing = TRUE
  /\ pending \in SeqsUpTo({ [type |-> t, player |-> Ann, content |-> m] :
                             t \in Types, m \in Messages }, MaxQueue)
  /\ heap = << createScenarioStateRoot(
                 [canon |-> <<AssistantMessage("b1")>>, privateInfo |-> "p1"]) >>
  /\ rootState = 1
  /\ currentState = 1
  /\ cmd = Finished("queued")
  /\ game = [defined |-> FALSE]
  /\ hist = [seen |-> {}, made |-> {}, last |-> None, via |-> None,
             pc |-> "idle", commits |-> 0, inputs |-> <<>>,
             kept |-> [defined |-> FALSE], clocks |-> <<>>, inbox |-> <<>>,
             param |-> <<>>, removes |-> 0]

NextProcess ==
  \/ \E u \in Users, ok \in BOOLEAN : ProcessCmd(u, ok)
  \/ PipelineStep
  \/ ProcessCatch
  \/ ProcessCommit
  \/ \E ok \in BOOLEAN : ProcessReplies(ok)

\* fair scheduling: every oracle request that is out returns or throws, and
\* the continuations of the pipeline and of the process command (the promise
\* jobs of the event loop) are run
Fairness ==
  /\ \A i \in 1..MaxBatch :
       WF_vars(\E resp \in ForecastResponses, rand \in Draws : ForecastReturn(i, resp, rand))
  /\ WF_vars(MergeIssue)
  /\ WF_vars(\E resp \in MergeResponses : MergeReturn(resp))
  /\ WF_vars(ProcessCatch)
  /\ WF_vars(ProcessCommit)
  /\ WF_vars(\E ok \in BOOLEAN : ProcessReplies(ok))

SpecFair == InitProcess /\ [][NextProcess]_vars /\ Fairness

\* --------------------------------- the ledger under ScenarioUpdate responses
MaxClockNodes == 5

\* values of currentDateTime, numbered in their order in time
Clocks == {1, 2, 3}

\* ScenarioUpdateSchema: privateInfo, currentDateTime, playerBriefing
ScenarioUpdates(texts) ==
  [privateInfo : PrivInfos, currentDateTime : Clocks, playerBriefing : texts]

ClockBatches ==
  { <<[type |-> "FEED",   player |-> Ann, content |-> "c1"]>>,
    <<[type |-> "ACTION", player |-> Ann, content |-> "c1"]>> }

\* GameStateManager.initializeScenario: the root is built from playerBriefing
\* and privateInfo of the update; hist.clocks keeps, per node, the
\* currentDateTime of the update the node was built from, which the node
\* itself does not hold
ClockInitialize(update) ==
  /\ heap = <<>>
  /\ heap' = << createScenarioStateRoot(
                  [canon |-> <<AssistantMessage(update.playerBriefing)>>,
                   privateInfo |-> update.privateInfo]) >>
  /\ playing' = TRUE
  /\ rootState' = 1
  /\ currentState' = 1
  /\ hist' = [hist EXCEPT !.clocks = <<update.currentDateTime>>]
  /\ UNCHANGED <<svc, run, players, pending, cmd, game>>

\* GameStateManager.processActions on the update of the narrative merge, and
\* the caller's currentState = newState
ClockProcess(actions, update) ==
  /\ currentState # 0
  /\ Len(heap) < MaxClockNodes
  /\ heap' = Append(heap, ManagerNewState(heap, currentState,
                       [actions |-> actions, response |-> update.playerBriefing]))
  /\ currentState' = Len(heap) + 1
  /\ hist' = [hist EXCEPT !.clocks = Append(@, update.currentDateTime)]
  /\ UNCHANGED <<svc, run, players, playing, pending, rootState, cmd, game>>

\* rollback command
ClockRollback(targetHash) ==
  /\ currentState # 0
  /\ LET found == findNodeByHash(heap, rootState, targetHash)
     IN  found # 0 /\ currentState' = found
  /\ UNCHANGED <<svc, run, players, playing, pending, heap, rootState, cmd, gameVars>>

InitClock ==
  /\ svc = "grim"
  /\ run = IdleRun
  /\ InitCommon

NextClock ==
  \/ \E update \in ScenarioUpdates(Briefings) : ClockInitialize(update)
  \/ \E actions \in ClockBatches, update \in ScenarioUpdates(Narratives) :
       ClockProcess(actions, update)
  \/ \E h \in 0..(HashSpace - 1) : ClockRollback(h)

SpecClock == InitClock /\ [][NextClock]_vars

\* ------------------------------------------ the sampler called on its own
MaxOutcomes == 3
Labels == {"o1", "o2"}
Weights == {0, 1, 3, 7}
SampleOutcomes == [outcome : Labels, weight : Weights]
SampleDraws == { <<0, 1>>, <<1, 2>>, <<7, 10>>, <<19, 20>>, <<999, 1000>> }

\* one call of sampleFromWeightedOutcomes on an argument list and a draw
SampleCall ==
  /\ run.phase = "sampling"
  /\ run' = [run EXCEPT !.phase = "sampled",
                         !.result = sampleFromWeightedOutcomes(run.outcomes, run.rand)]
  /\ UNCHANGED <<svc, botVars, gameVars>>

InitSample ==
  /\ svc \in Variants
  /\ \E outcomes \in SeqsUpTo(SampleOutcomes, MaxOutcomes), rand \in SampleDraws :
       run = [phase |-> "sampling", outcomes |-> outcomes, rand |-> rand,
              result |-> None]
  /\ InitCommon

NextSample == SampleCall

SpecSample == InitSample /\ [][NextSample]_vars

\* ------------------------------------------------------------- properties

\* C1: when the pipeline run of a process command fails, the command ends
\* with the session's current position being the node it was before the
\* command and with the pending queue holding the same interactions in the
\* same order.
C1_FailedRunKeepsPositionAndQueue ==
  (cmd.pc = "idle" /\ cmd.last = "process_failed") =>
    (currentState = cmd.cur0 /\ pending = cmd.queue0 /\ pending # <<>>)

\* a process command on a queue of two different interactions whose pipeline
\* run failed
C1_Witness ==
  /\ cmd.pc = "idle"
  /\ cmd.last = "process_failed"
  /\ Len(cmd.queue0) = 2
  /\ cmd.queue0[1] # cmd.queue0[2]

\* C3: every node committed in the session (the root or any child) is found
\* by findNodeByHash from the root when given its hash, so the rollback
\* command can make it the current position.
C3_CommittedNodesAreFound ==
  playing =>
    \A n \in 1..Len(heap) : findNodeByHash(heap, rootState, heap[n].stateHash) = n

\* C9: when a process command that ran the pipeline has finished, the queue
\* is empty if and only if the current position was advanced to the new child.
C9_QueueClearedIffAdvanced ==
  (cmd.pc = "idle" /\ cmd.last \in {"process_ok", "process_failed", "process_reply_failed"}) =>
    ((pending = <<>>) <=> (currentState # cmd.cur0))

\* C2: rollback(h) on the Game the caller holds returns a Game, and its
\* current state is the stored node with hash h, for every hash h that was
\* the hash of the current state at some earlier point.
C2_SeenHashesStayReachable ==
  game.defined =>
    \A h \in hist.seen :
      LET back == rollback(game, h)
      IN  /\ back.defined
          /\ back.currentState.hash = h
          /\ back.currentState = game.scenarioStates[h]

\* two commits, then a rollback over both of them to the root
C2_Witness ==
  /\ game.defined
  /\ hist.commits = 2
  /\ hist.last = "rollback"
  /\ Cardinality(hist.seen) = 3
  /\ game.currentState.parentHash = NoHash

\* C4: no step changes or removes a stored node: every hash of the Game's
\* store still maps to the same node (canon, private info, parent hash)
\* after the step.
C4_LedgerAppendOnly ==
  [][ game.defined =>
        \A h \in DOMAIN game.scenarioStates :
          /\ h \in DOMAIN game'.scenarioStates
          /\ game'.scenarioStates[h] = game.scenarioStates[h] ]_vars

\* C10: a successful Game.processActions returns a Game whose current state
\* has the receiver's current hash as parentHash, whose queue is empty and
\* whose store holds the new node and every node of the receiver's store.
C10_ProcessActionsAddsChild ==
  [][ (hist.pc = "process" /\ hist'.pc = "idle" /\ run.phase = "done") =>
        /\ game'.currentState.parentHash = game.currentState.hash
        /\ game'.userInteractions = <<>>
        /\ game'.currentState.hash \in DOMAIN game'.scenarioStates
        /\ game'.scenarioStates[game'.currentState.hash] = game'.currentState
        /\ \A h \in DOMAIN game.scenarioStates :
             /\ h \in DOMAIN game'.scenarioStates
             /\ game'.scenarioStates[h] = game.scenarioStates[h] ]_vars

\* the lines the merge text must hold for a batch: the FEED lines in batch
\* order, then one line per non-FEED interaction that got an outcome, in
\* batch order, read off the batch itself
RECURSIVE ExpectedFeedLines(_)
ExpectedFeedLines(actions) ==
  IF actions = <<>> THEN <<>>
  ELSE (IF Head(actions).type = "FEED"
          THEN << <<"FEED", Head(actions).content>> >> ELSE <<>>)
       \o ExpectedFeedLines(Tail(actions))

RECURSIVE ExpectedResolutionLines(_, _, _)
ExpectedResolutionLines(actions, results, k) ==
  IF actions = <<>> THEN <<>>
  ELSE LET a == Head(actions)
       IN  IF a.type = "FEED" THEN ExpectedResolutionLines(Tail(actions), results, k)
           ELSE (IF results[k + 1].st = "line"
                   THEN << <<a.type, a.player.name, a.content, "Outcome",
                             results[k + 1].line[5]>> >>
                   ELSE <<>>)
                \o ExpectedResolutionLines(Tail(actions), results, k + 1)

\* C5: whatever the completion order of the forecasts and whatever outcome
\* each sampled, the merge text is the FEED lines in batch order followed by
\* the resolution lines of the non-FEED interactions in batch order.
C5_MergeInputOrder ==
  (run.phase # "idle" /\ run.merged) =>
    run.mergeInput = ExpectedFeedLines(run.actions)
                       \o ExpectedResolutionLines(run.actions, run.fc, 0)

\* ACTION, INFO, FEED submitted in that order; the INFO forecast completed
\* before the ACTION forecast, and both sampled an outcome
C5_Witness ==
  /\ run.phase = "merging"
  /\ Len(run.actions) = 3
  /\ run.actions[1].type = "ACTION"
  /\ run.actions[2].type = "INFO"
  /\ run.actions[3].type = "FEED"
  /\ run.arrived = <<2, 1>>
  /\ run.fc[1].st = "line"
  /\ run.fc[2].st = "line"
  /\ run.fc[1].line[5] # run.fc[2].line[5]

NumFeeds(actions) == Cardinality({ k \in 1..Len(actions) : actions[k].type = "FEED" })

\* C6: a forecast response without tool call drops only its own interaction:
\* it yields no resolution line and does not fail the run, and once the merge
\* request is issued its text holds the FEED lines and the resolution line of
\* every other interaction that got an outcome.
C6_NoToolCallDropsOnlyThatAction ==
  run.phase # "idle" =>
    \A i \in 1..Len(run.fc) :
      (run.fc[i].st # "out" /\ run.fc[i].kind = "notool") =>
        /\ run.fc[i].st = "null"
        /\ (run.phase = "failed" /\ ~run.merged) =>
             \E j \in 1..Len(run.fc) : j # i /\ run.fc[j].st = "threw"
        /\ run.merged =>
             /\ Len(run.mergeInput) =
                  NumFeeds(run.actions)
                    + Cardinality({ j \in 1..Len(run.fc) : run.fc[j].st = "line" })
             /\ \A j \in 1..Len(run.fc) :
                  run.fc[j].st = "line" =>
                    \E k \in 1..Len(run.mergeInput) : run.mergeInput[k] = run.fc[j].line

\* a run that returned although one forecast had no tool call, with the
\* resolution line of another interaction in its merge text
C6_Witness ==
  /\ run.phase = "done"
  /\ \E i, j \in 1..Len(run.fc) :
       /\ run.fc[i].kind = "notool"
       /\ run.fc[j].st = "line"
       /\ \E k \in 1..Len(run.mergeInput) : run.mergeInput[k] = run.fc[j].line

\* C7: a forecast request that throws (transport error) or whose tool-call
\* arguments do not parse drops only its own interaction and never makes the
\* run fail.
C7_ForecastFailureIsNotFatal ==
  run.phase # "idle" =>
    \A i \in 1..Len(run.fc) :
      (run.fc[i].st # "out" /\ run.fc[i].kind \in {"transport", "badjson"}) =>
        /\ run.fc[i].st = "null"
        /\ run.phase = "failed" => run.merged

\* C8: the merge request is issued only when no forecast request of the
\* batch is outstanding: each has returned a line or a recorded drop.
C8_FanInBarrier ==
  (run.phase # "idle" /\ run.merged) =>
    \A i \in 1..Len(run.fc) : run.fc[i].st \in {"null", "line"}

\* the merge request issued for three forecasts that completed out of order
C8_Witness ==
  /\ run.phase = "merging"
  /\ Len(run.fc) = 3
  /\ run.arrived = <<3, 1, 2>>

\* C11: the node a resolve commits carries the private ledger the
\* narrative-merge step returned, not the parent's.
C11_CommitTakesMergedPrivateInfo ==
  [][ (cmd.pc = "process" /\ cmd'.pc = "replying") =>
        heap'[currentState'].state.privateInfo = run.privateInfo ]_vars

\* C12: canon is append-only along the paths of the Game's store: a root's
\* canon is the narrator briefing alone, and every other stored node's canon is
\* the canon of the stored node its parentHash names, followed by a user
\* record and a narrator record (so a node at depth d holds 1 + 2d records).
C12_CanonAppendOnly ==
  game.defined =>
    \A h \in DOMAIN game.scenarioStates :
      LET n == game.scenarioStates[h]
      IN  IF n.parentHash = NoHash
            THEN Len(n.canon) = 1 /\ n.canon[1].role = "assistant"
            ELSE /\ n.parentHash \in DOMAIN game.scenarioStates
                 /\ LET p == game.scenarioStates[n.parentHash]
                    IN  /\ Len(n.canon) = Len(p.canon) + 2
                        /\ SubSeq(n.canon, 1, Len(p.canon)) = p.canon
                        /\ n.canon[Len(p.canon) + 1].role = "user"
                        /\ n.canon[Len(p.canon) + 2].role = "assistant"

\* C13: Game.rollback without a target hash returns undefined exactly when
\* the current state is a root, and otherwise a Game positioned on the
\* immediate parent of the current state: the node the current state was
\* built from, whose canon is the current canon without its last two records.
C13_RollbackToParent ==
  game.defined =>
    LET cur  == game.currentState
        back == rollback(game, NoHash)
    IN  IF cur.parentHash = NoHash THEN ~back.defined
        ELSE /\ back.defined
             /\ back.currentState.hash = cur.parentHash
             /\ back.currentState.canon = SubSeq(cur.canon, 1, Len(cur.canon) - 2)

\* C14: Game.rollback to a hash that is not the hash of a stored node
\* returns undefined (no exception), and the Game the caller holds, with its
\* current state, store and queue, is the same afterwards.
C14_UnknownHashIsNotFound ==
  [][ /\ game.defined =>
           \A h \in 0..(HashSpace - 1) :
             h \notin DOMAIN game.scenarioStates => rollback(game, h) = Undefined
      /\ hist'.last = "rollback_undefined" => game' = game ]_vars

\* an unknown hash was asked for while a non-root state was current and an
\* interaction was queued (a rollback without argument would have succeeded)
C14_Witness ==
  /\ game.defined
  /\ hist.last = "rollback_undefined"
  /\ game.currentState.parentHash # NoHash
  /\ game.userInteractions # <<>>
  /\ Cardinality(DOMAIN game.scenarioStates) >= 2

\* C15: a successful rollback changes only the current state: the store
\* holds the same nodes under the same hashes and the queue has the same
\* interactions in the same order as before.
C15_RollbackMovesOnlyThePointer ==
  [][ hist'.last = "rollback" =>
        /\ game'.scenarioStates = game.scenarioStates
        /\ game'.userInteractions = game.userInteractions ]_vars

\* a rollback over two commits to the root with two interactions queued
C15_Witness ==
  /\ game.defined
  /\ hist.last = "rollback"
  /\ game.currentState.parentHash = NoHash
  /\ Cardinality(DOMAIN game.scenarioStates) = 3
  /\ Len(game.userInteractions) = 2
  /\ game.userInteractions[1] # game.userInteractions[2]

\* C16: nodes are never confused through their shortened digests: when a
\* commit builds a node whose hash is already a key of the store, the node
\* stored under that key is this very node, so that storing the new node
\* overwrites no other node and a lookup of the hash returns no other node.
C16_NoMatchOnTruncatedDigest ==
  [][ (hist.pc = "process" /\ hist'.pc = "idle" /\ run.phase = "done") =>
        LET new == game'.currentState
        IN  new.hash \in DOMAIN game.scenarioStates =>
              game.scenarioStates[new.hash] = new ]_vars

\* C17: building a child again from the same parent with the same canon
\* records and private info gives a node with the same hash, and committing
\* it leaves the store with the entries it had after the first commit.
C17_CommitIsIdempotent ==
  [][ (hist.pc = "process" /\ hist'.pc = "idle" /\ run.phase = "done") =>
        \A h \in DOMAIN game.scenarioStates :
          LET old == game.scenarioStates[h]
              new == game'.currentState
          IN  ( /\ old.canon = new.canon
                /\ old.privateInfo = new.privateInfo
                /\ old.parentHash = new.parentHash )
                => /\ new.hash = old.hash
                   /\ game'.scenarioStates = game.scenarioStates ]_vars

\* two commits that built one and the same child of the root: commit,
\* rollback to the root, commit again
C17_Witness ==
  /\ game.defined
  /\ hist.commits = 2
  /\ hist.last = "process"
  /\ hist.via = "rollback"
  /\ Cardinality(hist.made) = 2
  /\ Cardinality(DOMAIN game.scenarioStates) = 2

\* C18: every node of the Game is valid: its hash is the hash function
\* applied to its own canon, private info and parent hash, and every entry of
\* the store is kept under the hash of the node it holds.
C18_NodesAreValid ==
  game.defined =>
    /\ game.currentState =
         ScenarioState(game.currentState.canon, game.currentState.privateInfo,
                       game.currentState.parentHash)
    /\ \A h \in DOMAIN game.scenarioStates :
         LET n == game.scenarioStates[h]
         IN  /\ n.hash = h
             /\ n = ScenarioState(n.canon, n.privateInfo, n.parentHash)

\* a store holding a root, a child and a grandchild
C18_Witness ==
  /\ game.defined
  /\ Cardinality(DOMAIN game.scenarioStates) = 3
  /\ \E h \in DOMAIN game.scenarioStates : Len(game.scenarioStates[h].canon) = 5
  /\ \E h \in DOMAIN game.scenarioStates : Len(game.scenarioStates[h].canon) = 3

\* the sampler's arguments as the claims on it speak of them, with the
\* cumulative weight counted from the list itself
AllPositive(outcomes) ==
  outcomes # <<>> /\ \A i \in 1..Len(outcomes) : outcomes[i].weight > 0

RECURSIVE CumWeight(_, _)
CumWeight(outcomes, k) ==
  IF k = 0 THEN 0 ELSE CumWeight(outcomes, k - 1) + outcomes[k].weight

\* the cumulative normalized weight up to outcome k bounds the draw
BoundsDraw(outcomes, k, rand) ==
  /\ CumWeight(outcomes, Len(outcomes)) # 0
  /\ rand[1] * CumWeight(outcomes, Len(outcomes)) <= CumWeight(outcomes, k) * rand[2]

\* C19: for a non-empty list with positive weights and a draw in [0,1) the
\* sampler returns the label of one of the outcomes and does not throw; for a
\* list of one outcome it returns that outcome whatever the draw; when no
\* cumulative bound reaches the draw it returns the last outcome.
C19_SamplerTotality ==
  run.phase = "sampled" =>
    /\ AllPositive(run.outcomes) =>
         /\ run.result # Throw
         /\ \E i \in 1..Len(run.outcomes) : run.result = run.outcomes[i].outcome
    /\ Len(run.outcomes) = 1 => run.result = run.outcomes[1].outcome
    /\ ( /\ run.outcomes # <<>>
         /\ \A k \in 1..Len(run.outcomes) : ~BoundsDraw(run.outcomes, k, run.rand) )
         => run.result = run.outcomes[Len(run.outcomes)].outcome

\* three positive weights and a draw the third outcome is selected by
C19_Witness ==
  /\ run.phase = "sampled"
  /\ Len(run.outcomes) = 3
  /\ AllPositive(run.outcomes)
  /\ run.rand = <<999, 1000>>
  /\ run.outcomes[3].outcome # run.outcomes[1].outcome
  /\ run.result = run.outcomes[3].outcome

\* C20: with positive weights the selected outcome is the first one, in
\* input order, whose cumulative weight divided by the sum of the weights
\* bounds the draw; for [o1: 7, o2: 3] a draw of 1/2 selects o1 and a draw of
\* 19/20 selects o2.
C20_SamplerSelectionRule ==
  (run.phase = "sampled" /\ AllPositive(run.outcomes)) =>
    /\ \E k \in 1..Len(run.outcomes) :
         /\ run.result = run.outcomes[k].outcome
         /\ BoundsDraw(run.outcomes, k, run.rand)
         /\ \A j \in 1..(k - 1) : ~BoundsDraw(run.outcomes, j, run.rand)
    /\ run.outcomes = << [outcome |-> "o1", weight |-> 7],
                         [outcome |-> "o2", weight |-> 3] >> =>
         /\ run.rand = <<1, 2>> => run.result = "o1"
         /\ run.rand = <<19, 20>> => run.result = "o2"

\* the list [o1: 7, o2: 3] sampled with the draw 19/20
C20_Witness ==
  /\ run.phase = "sampled"
  /\ run.outcomes = << [outcome |-> "o1", weight |-> 7],
                       [outcome |-> "o2", weight |-> 3] >>
  /\ run.rand = <<19, 20>>
  /\ run.result = "o2"

C22_MalformedResponseIsFatal ==
  \A n \in 1..Len(heap) :
    \A k \in 1..Len(heap[n].state.canon) :
      heap[n].state.canon[k].role = "assistant" =>
        \E t \in Briefings \cup Narratives :
          heap[n].state.canon[k].content = <<<<t>>>>

\* C23: a resolve on an empty queue is turned down before the pipeline is
\* called: no run starts while the Game's queue is empty, and a run on an
\* empty batch leaves the Game the caller holds as it was.
C23_EmptyBatchIsRejected ==
  [][ /\ (hist.pc = "idle" /\ hist'.pc = "process") =>
           game.userInteractions # <<>>
      /\ (hist.pc = "process" /\ hist'.pc = "idle" /\ run.actions = <<>>) =>
           game' = game ]_vars

\* C24: a run on a batch with r non-FEED interactions issues r forecast
\* requests, one per INFO or ACTION and none for a FEED; when all of them have
\* returned the narrator request is issued, once; a batch of FEEDs only is
\* run like any other: no forecast request, one narrator request, and a
\* child node committed when it returns.
C24_RequestCounts ==
  [][ /\ run.phase \in {"forecasting", "merging", "done", "failed"} =>
           /\ run.forecasts = Len(run.actions) - NumFeeds(run.actions)
           /\ Len(run.fc) = run.forecasts
           /\ run.merges = IF run.merged THEN 1 ELSE 0
           /\ (\A i \in 1..Len(run.fc) : run.fc[i].st \in {"null", "line"}) =>
                \/ run.phase = "forecasting" /\ run.merges = 0 /\ MergeReady(run)
                \/ run.merges = 1
      /\ (cmd.pc = "process" /\ run.phase = "done") => run.merges = 1
      /\ (cmd.pc = "process" /\ cmd'.pc = "replying") =>
           /\ Len(heap') = Len(heap) + 1
           /\ heap'[currentState'].parent = cmd.cur0 ]_vars

\* a batch of two FEEDs was run and its child node committed
C24_Witness ==
  /\ cmd.pc = "replying"
  /\ Len(cmd.queue0) = 2
  /\ \A i \in 1..2 : cmd.queue0[i].type = "FEED"
  /\ currentState # cmd.cur0
  /\ heap[currentState].parent = cmd.cur0

\* the INFO and ACTION interactions of a batch in batch order, and the
\* resolution line that follows from one forecast's own response and draw
RECURSIVE Resolvables(_)
Resolvables(actions) ==
  IF actions = <<>> THEN <<>>
  ELSE (IF Head(actions).type \in {"INFO", "ACTION"} THEN <<Head(actions)>> ELSE <<>>)
       \o Resolvables(Tail(actions))

OwnLine(action, resp, rand) ==
  LET k == CHOOSE k \in 1..Len(resp.outcomes) :
             /\ BoundsDraw(resp.outcomes, k, rand)
             /\ \A j \in 1..(k - 1) : ~BoundsDraw(resp.outcomes, j, rand)
  IN  <<action.type, action.player.name, action.content, "Outcome",
        resp.outcomes[k].outcome>>

\* C25: forecasts of one batch are independent: the request issued for an
\* interaction is determined by the parent canon, the batch and the
\* interaction, and its resolution line by the interaction and its own oracle
\* response and draw, whatever the other forecasts of the batch returned, in
\* whatever order, dropped or not.
C25_ForecastsAreIndependent ==
  run.phase # "idle" =>
    /\ Len(run.requests) = Len(Resolvables(run.actions))
    /\ \A i \in 1..Len(run.requests) :
         LET a == Resolvables(run.actions)[i]
         IN  /\ run.requests[i].canon = run.canon
             /\ run.requests[i].target = <<a.type, a.player.name, a.content>>
             /\ Len(run.requests[i].concurrent) = Len(run.actions)
             /\ \A k \in 1..Len(run.actions) :
                  run.requests[i].concurrent[k] =
                    <<run.actions[k].type, run.actions[k].player.name,
                      run.actions[k].content>>
    /\ \A n \in 1..Len(hist.inputs) :
         LET in == hist.inputs[n]
             e  == run.fc[in.i]
             a  == Resolvables(run.actions)[in.i]
         IN  IF in.resp.kind = "tool" /\ in.resp.outcomes # <<>>
               THEN e.st = "line" /\ e.line = OwnLine(a, in.resp, in.rand)
               ELSE e.st # "line"

\* three forecasts of one batch completed out of order: one dropped, two
\* with different outcomes
C25_Witness ==
  /\ run.phase = "forecasting"
  /\ Len(run.fc) = 3
  /\ run.arrived = <<2, 3, 1>>
  /\ Len(hist.inputs) = 3
  /\ run.fc[2].st = "null"
  /\ run.fc[1].st = "line"
  /\ run.fc[3].st = "line"
  /\ run.fc[1].line[5] # run.fc[3].line[5]

C27_NoInteractionAbsorbed ==
  [][ (cmd.pc = "process" /\ run.phase = "done" /\ cmd'.pc = "replying") =>
        /\ run.actions = cmd.queue0
        /\ Len(run.mergeInput) = Len(cmd.queue0)
        /\ \A i \in 1..Len(run.fc) : run.fc[i].st = "line"
    ]_vars

\* C28: resolve triggers of a session are serialized: a pipeline run starts
\* only when no command is being handled and no run is under way, a run under
\* way changes only by its own forecasts returning, and while a process
\* command awaits its run the current position and the pending queue stay the
\* ones the run was started on, so that the child is committed under the
\* position the command read and no other commit comes in between.
C28_ResolveTriggersAreSerialized ==
  [][ /\ (run'.phase = "forecasting" /\ run' # run) =>
            \/ run.phase = "idle" /\ cmd.pc = "idle" /\ cmd'.pc = "process"
            \/ /\ run.phase = "forecasting"
               /\ Len(run'.arrived) = Len(run.arrived) + 1
               /\ cmd' = cmd
      /\ cmd.pc = "process" =>
            /\ pending = cmd.queue0
            /\ currentState = cmd.cur0
            /\ run.phase # "idle"
            /\ cmd'.pc \in {"process", "replying", "idle"}
      /\ (playing /\ heap' # heap) =>
            /\ cmd.pc = "process" /\ run.phase = "done"
            /\ Len(heap') = Len(heap) + 1
            /\ heap'[currentState'].parent = cmd.cur0
    ]_vars

\* a process command awaits the narrator while the batch of two it was
\* started on is still pending
C28_Witness ==
  /\ cmd.pc = "process"
  /\ run.phase = "merging"
  /\ Len(cmd.queue0) = 2
  /\ pending = cmd.queue0
  /\ currentState = cmd.cur0

C30_PlayerIdsAreUnique ==
  [][ /\ \A i, j \in 1..Len(players') :
           players'[i].id = players'[j].id => i = j
      /\ Len(pending') = Len(pending) + 1 =>
           LET x    == pending'[Len(pending')]
               mine == { i \in 1..Len(players) : players[i].id = x.player.id }
           IN  /\ mine # {}
               /\ x.player = players[CHOOSE i \in mine : \A j \in mine : j <= i]
    ]_vars

\* the user record of the node that is current
CommittedRecord(h, n) == h[n].state.canon[Len(h[n].state.canon) - 1].content

RECURSIVE ReachesRoot(_, _, _)
ReachesRoot(store, h, n) ==
  /\ h \in DOMAIN store
  /\ \/ store[h].parentHash = NoHash
     \/ n > 0 /\ ReachesRoot(store, store[h].parentHash, n - 1)

\* C32: every reachable Game is a well-formed tree: the current state is in
\* the store, every stored node with a parentHash has its parent in the store,
\* the store holds exactly one root, and following parentHash from any stored
\* node reaches that root in finitely many steps.
C32_GameIsATree ==
  game.defined =>
    LET store == game.scenarioStates
    IN  /\ game.currentState.hash \in DOMAIN store
        /\ store[game.currentState.hash] = game.currentState
        /\ \A h \in DOMAIN store :
             store[h].parentHash # NoHash => store[h].parentHash \in DOMAIN store
        /\ Cardinality({ h \in DOMAIN store : store[h].parentHash = NoHash }) = 1
        /\ \A h \in DOMAIN store : ReachesRoot(store, h, Cardinality(DOMAIN store))

\* a decimal numeral: one or more digits and nothing else, and its value
IsNumeral(param) ==
  param # <<>> /\ \A i \in 1..Len(param) : param[i] \in DigitChars

RECURSIVE NumeralValue(_)
NumeralValue(param) ==
  IF param = <<>> THEN 0
  ELSE 10 * NumeralValue(SubSeq(param, 1, Len(param) - 1))
       + (CHOOSE d \in 0..9 : ToString(d) = param[Len(param)])

\* C33: the pending queue keeps submission order: info, feed and action
\* append at the tail; remove with a number k, 1 <= k <= length, deletes the
\* k-th element alone and keeps the others in order; remove with a text that
\* is not a number, or a number out of range, leaves the queue as it is; and
\* none of these commands changes the current position or the ledger.
C33_QueueKeepsSubmissionOrder ==
  [][ /\ Len(pending') = Len(pending) + 1 =>
            /\ SubSeq(pending', 1, Len(pending)) = pending
            /\ UNCHANGED <<heap, rootState, currentState>>
      /\ hist'.removes = hist.removes + 1 =>
            /\ UNCHANGED <<heap, rootState, currentState>>
            /\ LET param == hist'.param
                   k     == NumeralValue(param)
               IN  IF IsNumeral(param) /\ 1 <= k /\ k <= Len(pending)
                     THEN /\ Len(pending') = Len(pending) - 1
                          /\ \A i \in 1..Len(pending') :
                               pending'[i] = IF i < k THEN pending[i] ELSE pending[i + 1]
                     ELSE pending' = pending
    ]_vars

C35_FailedScenarioChangesNothing ==
  (cmd.pc = "idle" /\ cmd.last = "scenario_failed") =>
    /\ ~playing
    /\ rootState = 0
    /\ currentState = 0
    /\ heap = <<>>
    /\ pending = <<>>

\* C36: if every oracle request that was issued returns or throws, every
\* process command that started a run finishes, with the child committed or
\* with the failure reply; no run stays at the fan-in barrier, whether
\* forecasts were dropped or one threw while others were still out.
C36_ProcessCommandFinishes ==
  (cmd.pc = "process") ~>
    (cmd.pc = "idle" /\ cmd.last \in {"process_ok", "process_failed", "process_reply_failed"})

\* a run that failed on one forecast while another request is still out
C36_Witness ==
  /\ cmd.pc = "process"
  /\ run.phase = "failed"
  /\ Len(run.fc) = 2
  /\ \E i \in 1..2 : run.fc[i].st = "threw"
  /\ \E i \in 1..2 : run.fc[i].st = "out"

====
